---- MODULE Spec2Model ----
(***************************************************************************)
(* Model of experiment/IR_camera_script/IR_script.py: interactive          *)
(* selection of rectangular regions on the 32x24 thermal image, the        *)
(* start/stop, reset and edit buttons, and the live acquisition loop that  *)
(* averages the newest frame over every region.                            *)
(*                                                                         *)
(* Units.  Click coordinates are floats in the source.  Here a coordinate  *)
(* is an integer number of HALF pixels (x = 41 stands for 20.5), so that   *)
(* round() meets both whole values and exact .5 ties.  Temperatures are    *)
(* integers in tenths of a degree (372 stands for 37.2).  A mean is kept   *)
(* as a reduced fraction num/den of tenths.                                *)
(***************************************************************************)
EXTENDS Integers, Sequences, FiniteSets, TLC

\* ---------------------------------------------------------------- constants
max_regions == 4
XMax == 31
YMax == 23
Rows == 24
Cols == 32
FpsEvery == 10

\* ------------------------------------------------------------------- bounds
\* Cap on the number of frames the loop processes in one run (log records).
MaxTicks == 2
\* Largest width and height, in half pixels, of the rectangles the ROI
\* translation is applied to in SpecRoi.
MaxExtent == 4

\* ------------------------------------------------------------------ helpers
None == <<>>
NoSnap == <<>>

Min(a, b) == IF a <= b THEN a ELSE b
Max(a, b) == IF a >= b THEN a ELSE b
Abs(a) == IF a < 0 THEN -a ELSE a

RECURSIVE GCD(_, _)
GCD(a, b) == IF b = 0 THEN a ELSE GCD(b, a % b)

\* Python round() of the float k/2: exact for whole values, ties to even.
Round(k) ==
  IF k % 2 = 0 THEN k \div 2
  ELSE LET fl == (k - 1) \div 2
       IN IF fl % 2 = 0 THEN fl ELSE fl + 1

\* ------------------------------------------------------------------- frames
Pixels == (0 .. Rows - 1) \X (0 .. Cols - 1)

\* A frame is held in the state by its name; Sample gives its contents.
\*   "zero": frame = np.zeros((24 * 32,))
\*   "hot":  37.2 at row 5, col 10 and 20.0 elsewhere
\*   "ramp": a different value in every row and column
Sample(f, p) ==
  CASE f = "zero" -> 0
    [] f = "hot" -> IF p = <<5, 10>> THEN 372 ELSE 200
    [] f = "ramp" -> 150 + 7 * p[1] + 3 * p[2]
\* what mlx.getFrame may deliver
Frames == {"hot", "ramp"}

\* ------------------------------------------------------------- click inputs
\* in-bounds pointer positions, half pixels: (20,5) (22,6) (20,6) (20,5.5)
InPts == {<<40, 10>>, <<44, 12>>, <<40, 12>>, <<40, 11>>}
\* positions outside 0..31 x 0..23: x > 31, x < 0, y > 23, y < 0
OutPts == {<<63, 10>>, <<-1, 10>>, <<40, 47>>, <<40, -1>>}
\* a button_press_event: inside the image axes at (x, y), or elsewhere
ClickEvents ==
  {[inaxes |-> TRUE, x |-> p[1], y |-> p[2]] : p \in InPts \cup OutPts}
    \cup {[inaxes |-> FALSE, x |-> 0, y |-> 0]}

VARIABLES
  regions,         \* list of [x, y, width, height]
  current_click,   \* None or <<x, y>>: the pending first corner
  selection_mode,
  live_mode,
  data_array,      \* the newest frame (its name, see Sample)
  roi_avgs,        \* the aggregates shown by the last processed frame
  log_len,         \* number of records written to log_file
  t_len,           \* len(t_array)
  event,           \* the last handler or loop step that ran, with its input
  msg,             \* what that step printed
  raised,          \* whether that handler ended by raising an exception
  snap,            \* the region list when Live was last switched on with
                   \* only loop ticks since (NoSnap otherwise)
  running,         \* the "while True" loop has not been left by an exception
  pc               \* where the main loop stands: "top" (line 174), "fetch"
                   \* (inside mlx.getFrame, line 179), "pause_tick" (inside
                   \* plt.pause(0.001), line 235), "pause_idle" (inside
                   \* plt.pause(0.1), line 244), "exit" (loop left)

vars == <<regions, current_click, selection_mode, live_mode, data_array,
          roi_avgs, log_len, t_len, event, msg, raised, snap, running,
          pc>>

Ev(op, inaxes, x, y) == [op |-> op, inaxes |-> inaxes, x |-> x, y |-> y]

\* The GUI event loop runs, and so dispatches the click and button handlers,
\* only inside plt.pause (lines 235 and 244); time.sleep (line 242) and the
\* rest of the loop body dispatch nothing.
InPause == pc \in {"pause_tick", "pause_idle"}

\* ------------------------------------------------------------ on_click
\* the guard with its sense inverted
ClickIgnoredInverted(sel, live) == sel /\ ~live

\* if not selection_mode or live_mode: return
ClickIgnored(sel, live) == (~sel) \/ live

\* x < 0 or x > 31 or y < 0 or y > 23
OutOfBounds(x, y) == x < 0 \/ x > 2 * XMax \/ y < 0 \/ y > 2 * YMax

\* the rectangle anchored at the first click instead of the smaller corner
BoundingRectFromFirst(p, q) ==
  [x |-> p[1], y |-> p[2], width |-> Abs(q[1] - p[1]),
   height |-> Abs(q[2] - p[2])]

\* rectangle from the first click p to the second click q
BoundingRect(p, q) ==
  LET x_min == Min(p[1], q[1])
      x_max == Max(p[1], q[1])
      y_min == Min(p[2], q[2])
      y_max == Max(p[2], q[2])
  IN [x |-> x_min, y |-> y_min, width |-> x_max - x_min,
      height |-> y_max - y_min]

\* rejecting only a rectangle that is empty on both axes
IsZeroSizeBoth(width, height) == width = 0 /\ height = 0

\* if width == 0 or height == 0
IsZeroSize(width, height) == width = 0 \/ height = 0

\* the limit test off by one
AtLimitStrict(n) == n > max_regions

\* if len(regions) >= max_regions
AtLimit(n) == n >= max_regions

on_click(ev) ==
  /\ running
  /\ InPause
  /\ UNCHANGED <<running, pc>>
  /\ event' = Ev("click", ev.inaxes, ev.x, ev.y)
  /\ raised' = FALSE
  /\ snap' = NoSnap
  /\ UNCHANGED <<selection_mode, live_mode, data_array, roi_avgs, log_len,
                 t_len>>
  /\ IF ClickIgnored(selection_mode, live_mode) \/ ~ev.inaxes
          \/ OutOfBounds(ev.x, ev.y)
     THEN /\ msg' = "none"
          /\ UNCHANGED <<regions, current_click>>
     ELSE IF current_click = None
     THEN /\ current_click' = <<ev.x, ev.y>>
          /\ msg' = "First corner"
          /\ UNCHANGED regions
     ELSE LET r == BoundingRect(current_click, <<ev.x, ev.y>>)
          IN IF IsZeroSize(r.width, r.height)
             THEN /\ msg' = "Invalid region"
                  /\ current_click' = None
                  /\ UNCHANGED regions
             ELSE IF AtLimit(Len(regions))
             THEN /\ msg' = "Maximum number of regions reached"
                  /\ current_click' = None
                  /\ UNCHANGED regions
             ELSE /\ regions' = Append(regions, r)
                  /\ msg' = "Region added"
                  /\ current_click' = None

\* ------------------------------------------------- start_live_callback
\* a toggle that also forgets the pending corner
start_live_clears_pending ==
  /\ running
  /\ InPause
  /\ UNCHANGED <<running, pc>>
  /\ live_mode' = ~live_mode
  /\ selection_mode' = live_mode
  /\ current_click' = None
  /\ snap' = IF live_mode THEN snap ELSE <<regions>>
  /\ event' = Ev("toggle", FALSE, 0, 0)
  /\ msg' = "none"
  /\ raised' = FALSE
  /\ UNCHANGED <<regions, data_array, roi_avgs, log_len, t_len>>

\* a toggle that drops the regions when Live is switched off
start_live_drops_regions ==
  /\ running
  /\ InPause
  /\ UNCHANGED <<running, pc>>
  /\ live_mode' = ~live_mode
  /\ selection_mode' = live_mode
  /\ regions' = IF live_mode THEN <<>> ELSE regions
  /\ snap' = IF live_mode THEN snap ELSE <<regions>>
  /\ event' = Ev("toggle", FALSE, 0, 0)
  /\ msg' = "none"
  /\ raised' = FALSE
  /\ UNCHANGED <<current_click, data_array, roi_avgs, log_len, t_len>>

start_live_callback ==
  /\ running
  /\ InPause
  /\ UNCHANGED <<running, pc>>
  /\ live_mode' = ~live_mode
  /\ selection_mode' = live_mode
  /\ snap' = IF live_mode THEN snap ELSE <<regions>>
  /\ event' = Ev("toggle", FALSE, 0, 0)
  /\ msg' = "none"
  /\ raised' = FALSE
  /\ UNCHANGED <<regions, current_click, data_array, roi_avgs, log_len,
                 t_len>>

\* ------------------------------------------------ reset_regions_callback
\* Line 144, the body of "for reg in regions:", is indented with U+2002
\* (EN SPACE) characters, which Python rejects when it compiles the function
\* ("invalid non-printable character"); the line also names rg where the
\* loop variable is reg.  As given, the handler therefore never gets to
\* regions.clear() or current_click = None: pressing Reset ends in an error
\* and clears nothing, whatever the region list holds.
reset_regions_callback ==
  /\ running
  /\ InPause
  /\ UNCHANGED <<running, pc>>
  /\ event' = Ev("reset", FALSE, 0, 0)
  /\ snap' = NoSnap
  /\ raised' = TRUE
  /\ msg' = "none"
  /\ UNCHANGED <<regions, current_click, selection_mode, live_mode,
                 data_array, roi_avgs, log_len, t_len>>

\* ------------------------------------------------- edit_regions_callback
\* an edit that forgets to switch Live off
edit_keeps_live ==
  /\ running
  /\ InPause
  /\ UNCHANGED <<running, pc>>
  /\ selection_mode' = TRUE
  /\ event' = Ev("edit", FALSE, 0, 0)
  /\ snap' = NoSnap
  /\ msg' = "none"
  /\ raised' = FALSE
  /\ UNCHANGED <<live_mode, regions, current_click, data_array, roi_avgs,
                 log_len, t_len>>

edit_regions_callback ==
  /\ running
  /\ InPause
  /\ UNCHANGED <<running, pc>>
  /\ live_mode' = FALSE
  /\ selection_mode' = TRUE
  /\ event' = Ev("edit", FALSE, 0, 0)
  /\ snap' = NoSnap
  /\ msg' = "none"
  /\ raised' = FALSE
  /\ UNCHANGED <<regions, current_click, data_array, roi_avgs, log_len,
                 t_len>>

\* --------------------------------------------------------- ROI averaging
NaN == [nan |-> TRUE, num |-> 0, den |-> 1]

\* raw_x_min = max(0, int(round(31 - (x_disp + width))))
RawXMin(reg) == Max(0, Round(2 * XMax - (reg.x + reg.width)))
\* raw_x_max = min(31, int(round(31 - x_disp)))
RawXMax(reg) == Min(XMax, Round(2 * XMax - reg.x))
\* raw_y_min = max(0, int(round(y_disp)))
RawYMin(reg) == Max(0, Round(reg.y))
\* raw_y_max = min(23, int(round(y_disp + height)))
RawYMax(reg) == Min(YMax, Round(reg.y + reg.height))

\* the guard catching only equal bounds, not inverted ones
IsEmptyRangeEqualOnly(lo, hi) == hi = lo

\* if raw_x_max <= raw_x_min or raw_y_max <= raw_y_min (one axis at a time)
IsEmptyRange(lo, hi) == hi <= lo

\* where a slice bound i lands on an axis of length n: a negative bound
\* counts from the end, and both ends are clipped to 0..n
SliceBound(i, n) == IF i < 0 THEN Max(0, i + n) ELSE Min(i, n)

\* the slice with its upper bound included
SliceIndicesInclusive(lo, hi, n) == SliceBound(lo, n) .. SliceBound(hi, n)

\* the indices the slice lo:hi selects on an axis of length n
SliceIndices(lo, hi, n) == SliceBound(lo, n) .. (SliceBound(hi, n) - 1)

\* roi = data_array[raw_y_min:raw_y_max, raw_x_min:raw_x_max]
RoiCells(reg) ==
  SliceIndices(RawYMin(reg), RawYMax(reg), Rows)
    \X SliceIndices(RawXMin(reg), RawXMax(reg), Cols)

RECURSIVE SumOver(_, _)
SumOver(S, f) ==
  IF S = {} THEN 0
  ELSE LET p == CHOOSE q \in S : TRUE
       IN Sample(f, p) + SumOver(S \ {p}, f)

\* np.mean(roi) as a reduced fraction; the mean of no samples is nan
Mean(S, f) ==
  IF S = {} THEN NaN
  ELSE LET s == SumOver(S, f)
           n == Cardinality(S)
           g == GCD(s, n)
       IN [nan |-> FALSE, num |-> s \div g, den |-> n \div g]

RoiAvg(reg, f) ==
  IF IsEmptyRange(RawXMin(reg), RawXMax(reg))
       \/ IsEmptyRange(RawYMin(reg), RawYMax(reg))
  THEN NaN
  ELSE Mean(RoiCells(reg), f)

RoiAvgs(rs, f) == [i \in 1 .. Len(rs) |-> RoiAvg(rs[i], f)]

\* --------------------------------------------------------------- main loop
\* while True: if live_mode: ... mlx.getFrame(frame) is entered
TickFetch ==
  /\ running
  /\ pc = "top"
  /\ live_mode
  /\ pc' = "fetch"
  /\ event' = Ev("fetch", FALSE, 0, 0)
  /\ msg' = "none"
  /\ raised' = FALSE
  /\ UNCHANGED <<regions, current_click, selection_mode, live_mode,
                 data_array, roi_avgs, log_len, t_len, snap, running>>

\* mlx.getFrame raises and the exception leaves the loop uncaught
TickFetchUncaught ==
  /\ running
  /\ pc = "fetch"
  /\ pc' = "exit"
  /\ running' = FALSE
  /\ msg' = "none"
  /\ event' = Ev("tick_fetch_fail", FALSE, 0, 0)
  /\ raised' = TRUE
  /\ UNCHANGED <<regions, current_click, selection_mode, live_mode,
                 data_array, roi_avgs, log_len, t_len, snap>>

\* mlx.getFrame raises: caught by "except Exception", nothing else ran;
\* the handler prints, sleeps 0.1 s and the loop is back at its top.
TickFetchFail ==
  /\ running
  /\ pc = "fetch"
  /\ pc' = "top"
  /\ msg' = "Error in live loop"
  /\ event' = Ev("tick_fetch_fail", FALSE, 0, 0)
  /\ raised' = FALSE
  /\ UNCHANGED <<regions, current_click, selection_mode, live_mode,
                 data_array, roi_avgs, log_len, t_len, snap, running>>

\* the frame f is delivered, then log_file.write / flush (lines 185-186)
\* raises: no record, no aggregates.
TickWriteFail(f) ==
  /\ running
  /\ pc = "fetch"
  /\ pc' = "top"
  /\ data_array' = f
  /\ msg' = "Error in live loop"
  /\ event' = Ev("tick_write_fail", FALSE, 0, 0)
  /\ raised' = FALSE
  /\ UNCHANGED <<regions, current_click, selection_mode, live_mode,
                 roi_avgs, log_len, t_len, snap, running>>

\* the frame f is delivered, logged and averaged, then fig.canvas.draw
\* (line 234) raises before plt.pause is entered.
TickDrawFail(f) ==
  /\ running
  /\ pc = "fetch"
  /\ log_len < MaxTicks
  /\ pc' = "top"
  /\ data_array' = f
  /\ log_len' = log_len + 1
  /\ roi_avgs' = RoiAvgs(regions, f)
  /\ msg' = "Error in live loop"
  /\ event' = Ev("tick_draw_fail", FALSE, 0, 0)
  /\ raised' = FALSE
  /\ UNCHANGED <<regions, current_click, selection_mode, live_mode, t_len,
                 snap, running>>

\* the frame f is delivered, logged, averaged and drawn (lines 179-234) and
\* plt.pause(0.001) is entered (line 235).
TickProcess(f) ==
  /\ running
  /\ pc = "fetch"
  /\ log_len < MaxTicks
  /\ pc' = "pause_tick"
  /\ data_array' = f
  /\ log_len' = log_len + 1
  /\ roi_avgs' = RoiAvgs(regions, f)
  /\ msg' = "none"
  /\ event' = Ev("tick_processed", FALSE, 0, 0)
  /\ raised' = FALSE
  /\ UNCHANGED <<regions, current_click, selection_mode, live_mode, t_len,
                 snap, running>>

\* plt.pause(0.001) raises: caught by "except Exception" like the others.
TickPauseFail ==
  /\ running
  /\ pc = "pause_tick"
  /\ pc' = "top"
  /\ msg' = "Error in live loop"
  /\ event' = Ev("tick_pause_fail", FALSE, 0, 0)
  /\ raised' = FALSE
  /\ UNCHANGED <<regions, current_click, selection_mode, live_mode,
                 data_array, roi_avgs, log_len, t_len, snap, running>>

\* plt.pause(0.001) returns: t_array.append and the rate print of every
\* tenth timing (lines 237-239), whatever the handlers did to the mode.
TickFinish ==
  /\ running
  /\ pc = "pause_tick"
  /\ pc' = "top"
  /\ t_len' = t_len + 1
  /\ msg' = IF (t_len + 1) % FpsEvery = 0 THEN "Sample Rate" ELSE "none"
  /\ event' = Ev("tick_done", FALSE, 0, 0)
  /\ raised' = FALSE
  /\ UNCHANGED <<regions, current_click, selection_mode, live_mode,
                 data_array, roi_avgs, log_len, snap, running>>

\* else: plt.pause(0.1) is entered
IdlePause ==
  /\ running
  /\ pc = "top"
  /\ ~live_mode
  /\ pc' = "pause_idle"
  /\ event' = Ev("idle", FALSE, 0, 0)
  /\ msg' = "none"
  /\ raised' = FALSE
  /\ UNCHANGED <<regions, current_click, selection_mode, live_mode,
                 data_array, roi_avgs, log_len, t_len, snap, running>>

\* plt.pause(0.1) returns
IdleResume ==
  /\ running
  /\ pc = "pause_idle"
  /\ pc' = "top"
  /\ event' = Ev("idle_done", FALSE, 0, 0)
  /\ msg' = "none"
  /\ raised' = FALSE
  /\ UNCHANGED <<regions, current_click, selection_mode, live_mode,
                 data_array, roi_avgs, log_len, t_len, snap, running>>

\* plt.pause(0.1) raises: line 244 is outside the try block, so the
\* exception leaves the loop.
IdlePauseFail ==
  /\ running
  /\ pc = "pause_idle"
  /\ pc' = "exit"
  /\ running' = FALSE
  /\ event' = Ev("idle_fail", FALSE, 0, 0)
  /\ msg' = "none"
  /\ raised' = TRUE
  /\ UNCHANGED <<regions, current_click, selection_mode, live_mode,
                 data_array, roi_avgs, log_len, t_len, snap>>

\* ----------------------------------------------------------- specification
Init ==
  /\ regions = <<>>
  /\ current_click = None
  /\ selection_mode = TRUE
  /\ live_mode = FALSE
  /\ data_array = "zero"
  /\ roi_avgs = <<>>
  /\ log_len = 0
  /\ t_len = 0
  /\ event = Ev("start", FALSE, 0, 0)
  /\ msg = "none"
  /\ raised = FALSE
  /\ snap = NoSnap
  /\ running = TRUE
  /\ pc = "top"

Next ==
  \/ \E ev \in ClickEvents : on_click(ev)
  \/ start_live_callback
  \/ reset_regions_callback
  \/ edit_regions_callback
  \/ TickFetch
  \/ TickFetchFail
  \/ \E f \in Frames : TickWriteFail(f)
  \/ \E f \in Frames : TickDrawFail(f)
  \/ \E f \in Frames : TickProcess(f)
  \/ TickPauseFail
  \/ TickFinish
  \/ IdlePause
  \/ IdleResume
  \/ IdlePauseFail

Spec == Init /\ [][Next]_vars

\* ------------------------------------- ROI translation on any rectangle
\* The averaging step of the loop applied to one rectangle placed anywhere,
\* inside, across or outside the 32 x 24 grid (coordinates in half pixels).
RoiXs == {-8, -3, -1, 0, 1, 40, 41, 61, 62, 63, 67}
RoiYs == {-8, -3, -1, 0, 1, 10, 11, 45, 46, 47, 51}
RoiRects ==
  {[x |-> x, y |-> y, width |-> w, height |-> h] :
     x \in RoiXs, y \in RoiYs, w \in 1 .. MaxExtent, h \in 1 .. MaxExtent}

InitRoi ==
  /\ regions \in {<<r>> : r \in RoiRects}
  /\ current_click = None
  /\ selection_mode = FALSE
  /\ live_mode = TRUE
  /\ data_array = "zero"
  /\ roi_avgs = <<>>
  /\ log_len = 0
  /\ t_len = 0
  /\ event = Ev("start", FALSE, 0, 0)
  /\ msg = "none"
  /\ raised = FALSE
  /\ snap = NoSnap
  /\ running = TRUE
  /\ pc = "top"

NextRoi ==
  \/ TickFetch
  \/ TickFetchFail
  \/ \E f \in Frames : TickWriteFail(f)
  \/ \E f \in Frames : TickDrawFail(f)
  \/ \E f \in Frames : TickProcess(f)
  \/ TickPauseFail
  \/ TickFinish

SpecRoi == InitRoi /\ [][NextRoi]_vars

\* ------------------------------------------- the loop under fair scheduling
\* "while True" never stops taking steps of its own accord: a tick when
\* live_mode is set and a pause otherwise; plt.pause returns after its
\* interval however many events it dispatched.
LoopIteration ==
  \/ TickFetch
  \/ TickFetchFail
  \/ \E f \in Frames : TickWriteFail(f)
  \/ \E f \in Frames : TickDrawFail(f)
  \/ \E f \in Frames : TickProcess(f)
  \/ TickPauseFail
  \/ TickFinish
  \/ IdlePause
  \/ IdleResume
  \/ IdlePauseFail

\* region lists as clicks leave them: none, (20,5)-(22,6), and that one
\* followed by (22,6)-(20,5.5)
LoopRegionLists ==
  {<<>>,
   <<BoundingRect(<<40, 10>>, <<44, 12>>)>>,
   <<BoundingRect(<<40, 10>>, <<44, 12>>),
     BoundingRect(<<44, 12>>, <<40, 11>>)>>}

InitLoop ==
  /\ regions \in LoopRegionLists
  /\ current_click \in {None, <<40, 10>>}
  /\ selection_mode = TRUE
  /\ live_mode = FALSE
  /\ data_array = "zero"
  /\ roi_avgs = <<>>
  /\ log_len = 0
  /\ t_len = 0
  /\ event = Ev("start", FALSE, 0, 0)
  /\ msg = "none"
  /\ raised = FALSE
  /\ snap = NoSnap
  /\ running = TRUE
  /\ pc = "top"

\* the buttons and the loop; no further region is drawn
NextLoop ==
  \/ start_live_callback
  \/ reset_regions_callback
  \/ edit_regions_callback
  \/ TickFetch
  \/ TickFetchFail
  \/ \E f \in Frames : TickWriteFail(f)
  \/ \E f \in Frames : TickDrawFail(f)
  \/ \E f \in Frames : TickProcess(f)
  \/ TickPauseFail
  \/ TickFinish
  \/ IdlePause
  \/ IdleResume
  \/ IdlePauseFail

SpecLoop == InitLoop /\ [][NextLoop]_vars /\ WF_vars(LoopIteration)

TypeOK ==
  /\ Len(regions) \in 0 .. max_regions
  /\ selection_mode \in BOOLEAN
  /\ live_mode \in BOOLEAN
  /\ selection_mode = ~live_mode
  /\ Len(roi_avgs) <= Len(regions)
  /\ log_len \in 0 .. MaxTicks
  /\ t_len \in 0 .. log_len
  /\ running \in BOOLEAN
  /\ pc \in {"top", "fetch", "pause_tick", "pause_idle", "exit"}
  /\ running = (pc # "exit")

\* ================================================================== claims
\* the step just taken was a click that gets past the three early returns
InBoundsEvent(e) ==
  e.inaxes /\ e.x >= 0 /\ e.x <= 62 /\ e.y >= 0 /\ e.y <= 46
Selecting == selection_mode /\ ~live_mode
Processed == event.op \in {"tick_processed", "tick_draw_fail"}

\* C1: after the reset action the region list is empty, there is no pending
\* corner and no error was raised, from every state (this is the statement
\* of the specification; the handler as given does not meet it).
C1_ResetClearsAll ==
  event.op = "reset" =>
    regions = <<>> /\ current_click = None /\ ~raised

\* C2 as stated: the aggregate of a processed frame is the mean over the
\* clamped window with BOTH bounds included; the example gives 1372/6.
InclusiveCells(reg) ==
  {<<r, c>> : r \in RawYMin(reg) .. RawYMax(reg),
               c \in RawXMin(reg) .. RawXMax(reg)}
ExampleRegion == [x |-> 40, y |-> 10, width |-> 4, height |-> 2]
C2_InclusiveWindowMean ==
  Processed =>
    \A i \in 1 .. Len(regions) :
      /\ ~roi_avgs[i].nan =>
            roi_avgs[i].num * Cardinality(InclusiveCells(regions[i]))
              = roi_avgs[i].den * SumOver(InclusiveCells(regions[i]),
                                         data_array)
      /\ (regions[i] = ExampleRegion /\ data_array = "hot") =>
            /\ ~roi_avgs[i].nan
            /\ roi_avgs[i].num * 6 = roi_avgs[i].den * (372 + 5 * 200)

\* C2 amended: the aggregate of a processed frame, when it is a number, is
\* the mean over the half-open window (upper bounds excluded): rows
\* raw_y_min .. raw_y_max-1, columns raw_x_min .. raw_x_max-1.  For the
\* example the window is row 5, columns 9..10 and the mean (37.2+20.0)/2.
HalfOpenCells(reg) ==
  {<<r, c>> : r \in RawYMin(reg) .. (RawYMax(reg) - 1),
               c \in RawXMin(reg) .. (RawXMax(reg) - 1)}
C2_HalfOpenWindowMean ==
  Processed =>
    /\ Len(roi_avgs) = Len(regions)
    /\ \A i \in 1 .. Len(regions) :
         /\ ~roi_avgs[i].nan =>
               roi_avgs[i].num * Cardinality(HalfOpenCells(regions[i]))
                 = roi_avgs[i].den * SumOver(HalfOpenCells(regions[i]),
                                            data_array)
         /\ (regions[i] = ExampleRegion /\ data_array = "hot") =>
               /\ ~roi_avgs[i].nan
               /\ HalfOpenCells(regions[i]) = {<<5, 9>>, <<5, 10>>}
               /\ roi_avgs[i].num * 2 = roi_avgs[i].den * (372 + 200)
C2_Witness ==
  /\ event.op = "tick_processed"
  /\ data_array = "hot"
  /\ \E i \in 1 .. Len(regions) :
       /\ regions[i] = ExampleRegion
       /\ roi_avgs[i] = [nan |-> FALSE, num |-> 286, den |-> 1]

\* C3 as stated: whenever the mode is Live there is no pending corner.
C3_NoPendingInLive == live_mode => current_click = None

\* C3 amended: the start/stop toggle leaves the pending corner as it is, in
\* both directions, and while the mode is Live no click, toggle, edit or
\* loop step changes it; so a corner pending before a Selecting -> Live ->
\* Selecting round trip is still pending after it.
C3_TogglePreservesPending ==
  [][/\ event'.op = "toggle" => current_click' = current_click
     /\ (live_mode /\ event'.op # "reset") =>
           current_click' = current_click]_vars
C3_Witness ==
  /\ event.op = "toggle"
  /\ Selecting
  /\ snap # NoSnap
  /\ current_click # None

\* C4 as stated: the edit action leaves mode = Selecting and NO pending
\* corner, keeps the region list, and a second edit changes nothing.
C4_EditClearsPending ==
  [][event'.op = "edit" =>
       /\ selection_mode' /\ ~live_mode'
       /\ current_click' = None
       /\ regions' = regions
       /\ event.op = "edit" =>
             UNCHANGED <<regions, current_click, selection_mode,
                         live_mode>>]_vars

\* C4 amended: the edit action leaves mode = Selecting (Live switched off),
\* leaves the pending corner and the region list unchanged, and a second
\* edit changes nothing.
C4_EditKeepsPending ==
  [][event'.op = "edit" =>
       /\ selection_mode' /\ ~live_mode'
       /\ current_click' = current_click
       /\ regions' = regions
       /\ event.op = "edit" =>
             UNCHANGED <<regions, current_click, selection_mode, live_mode,
                         data_array, roi_avgs, log_len, t_len>>]_vars
C4_Witness ==
  /\ event.op = "edit"
  /\ Selecting
  /\ current_click # None
  /\ regions # <<>>
  /\ log_len > 0

\* the click about to be handled is a second click that reaches the
\* rectangle computation: Selecting, a corner pending, position in bounds
SecondClick ==
  /\ event'.op = "click"
  /\ InBoundsEvent(event')
  /\ Selecting
  /\ current_click # None

\* C5: in Selecting mode with fewer than 4 regions and no pending corner, an
\* in-bounds click p becomes the pending corner, and a following in-bounds
\* click q with a different x and a different y appends exactly one region
\* [min(px,qx), min(py,qy), |px-qx|, |py-qy|] after the existing ones and
\* clears the pending corner.
C5_TwoClicksAddRegion ==
  [][/\ (/\ event'.op = "click" /\ InBoundsEvent(event') /\ Selecting
          /\ current_click = None) =>
          /\ current_click' = <<event'.x, event'.y>>
          /\ regions' = regions
     /\ (/\ SecondClick
          /\ Len(regions) < 4
          /\ event'.x # current_click[1]
          /\ event'.y # current_click[2]) =>
          /\ regions' =
               regions \o
                 <<[x |-> Min(current_click[1], event'.x),
                    y |-> Min(current_click[2], event'.y),
                    width |-> Abs(current_click[1] - event'.x),
                    height |-> Abs(current_click[2] - event'.y)]>>
          /\ current_click' = None]_vars
C5_Witness ==
  /\ event.op = "click"
  /\ msg = "Region added"
  /\ Len(regions) = 3
  /\ regions[3] = [x |-> 40, y |-> 11, width |-> 4, height |-> 1]
  /\ regions[2] = ExampleRegion
  /\ current_click = None

\* C6: there are never more than 4 regions; with 4 regions a second click
\* with a non-degenerate box leaves the list unchanged, prints that the
\* maximum is reached and discards the pending corner.
C6_AtMostFourRegions ==
  /\ [](Len(regions) <= 4)
  /\ [][(/\ SecondClick
          /\ Len(regions) = 4
          /\ event'.x # current_click[1]
          /\ event'.y # current_click[2]) =>
          /\ regions' = regions
          /\ msg' = "Maximum number of regions reached"
          /\ current_click' = None]_vars
C6_Witness ==
  /\ event.op = "click"
  /\ msg = "Maximum number of regions reached"
  /\ Len(regions) = 4
  /\ current_click = None

\* C7: every region has width > 0 and height > 0; a second click sharing
\* its x or its y with the pending corner adds no region, discards the
\* pending corner and prints that the region is invalid.
C7_NoZeroSizeRegion ==
  /\ [](\A i \in 1 .. Len(regions) :
          regions[i].width > 0 /\ regions[i].height > 0)
  /\ [][(/\ SecondClick
          /\ \/ event'.x = current_click[1]
             \/ event'.y = current_click[2]) =>
          /\ regions' = regions
          /\ msg' = "Invalid region"
          /\ current_click' = None]_vars
C7_Witness ==
  /\ event.op = "click"
  /\ msg = "Invalid region"
  /\ regions # <<>>
  /\ current_click = None

\* C8 (SpecRoi): for a rectangle lying entirely outside the grid on an axis
\* (x > 31 or x + width < 0; y > 23 or y + height < 0) the clamped bounds
\* on that axis satisfy upper <= lower and the aggregate is not-a-number;
\* an aggregate that is a number has upper > lower on both axes.
OutsideX(reg) == reg.x > 62 \/ reg.x + reg.width < 0
OutsideY(reg) == reg.y > 46 \/ reg.y + reg.height < 0
C8_OutsideGivesNaN ==
  Processed =>
    \A i \in 1 .. Len(regions) :
      /\ OutsideX(regions[i]) =>
            RawXMax(regions[i]) <= RawXMin(regions[i]) /\ roi_avgs[i].nan
      /\ OutsideY(regions[i]) =>
            RawYMax(regions[i]) <= RawYMin(regions[i]) /\ roi_avgs[i].nan
      /\ ~roi_avgs[i].nan =>
            /\ RawXMax(regions[i]) > RawXMin(regions[i])
            /\ RawYMax(regions[i]) > RawYMin(regions[i])
C8_Witness ==
  /\ Processed
  /\ regions[1] = [x |-> 67, y |-> 10, width |-> 4, height |-> 2]
  /\ roi_avgs[1].nan

\* C9: starting in Selecting mode, two toggles with only loop ticks in
\* between end in Selecting mode with the region list of before the first
\* toggle; every toggle inverts the mode and keeps the region list.
C9_ToggleTwice ==
  /\ []((event.op = "toggle" /\ snap # NoSnap /\ ~live_mode) =>
          selection_mode /\ regions = snap[1])
  /\ [][event'.op = "toggle" =>
          /\ live_mode' = ~live_mode
          /\ selection_mode' = ~live_mode'
          /\ regions' = regions]_vars
C9_Witness ==
  /\ event.op = "toggle"
  /\ Selecting
  /\ snap # NoSnap
  /\ Len(regions) = 2
  /\ regions = snap[1]
  /\ log_len = 2
  /\ t_len = 1

\* C10: while the mode is Live a click, wherever it lands, changes neither
\* the region list nor the pending corner nor the mode.
C10_ClickInLiveIsNoOp ==
  [][(live_mode /\ event'.op = "click") =>
       UNCHANGED <<regions, current_click, selection_mode, live_mode>>]_vars
C10_Witness ==
  /\ event.op = "click"
  /\ InBoundsEvent(event)
  /\ live_mode
  /\ current_click # None
  /\ <<event.x, event.y>> # current_click
  /\ regions # <<>>

\* C11: a failed tick is never fatal.  A tick in which the fetch, the log
\* write, the drawing or the pause raises ends with the exception caught
\* (the loop keeps running, "Error in live loop" is printed), the failure
\* leaves the mode and the region list unchanged, and a failed fetch writes
\* no log record; after a failed tick the loop goes on: to a next fetch when
\* the mode is still Live, to the idle pause when it is not.
FailedTick(e) ==
  e.op \in {"tick_fetch_fail", "tick_write_fail", "tick_draw_fail",
            "tick_pause_fail"}
C11_FailedTickNotFatal ==
  /\ [][FailedTick(event') =>
          /\ running' /\ ~raised'
          /\ pc' = "top"
          /\ msg' = "Error in live loop"
          /\ live_mode' = live_mode
          /\ selection_mode' = selection_mode
          /\ regions' = regions
          /\ event'.op \in {"tick_fetch_fail", "tick_write_fail"} =>
                log_len' = log_len]_vars
  /\ (FailedTick(event) /\ live_mode) ~> (pc = "fetch" /\ live_mode)
  /\ (FailedTick(event) /\ ~live_mode) ~> (pc = "pause_idle")
C11_Witness ==
  /\ event.op = "tick_processed"
  /\ live_mode
  /\ running
  /\ log_len = 2
  /\ t_len = 0
  /\ regions # <<>>
====
